---------------------------- MODULE Spec2Model ----------------------------
(***************************************************************************)
(* Model of the escooter trip generator, src/load-generator/               *)
(* load-generator.py: the road graph with its per-edge attributes, OD      *)
(* sampling (sample_od_pair over networkx's ego_graph), shortest-path      *)
(* routing, event generation with timezone-aware timestamps, accumulation  *)
(* of the events into a pandas DataFrame, the uniqueness check and the     *)
(* two CSV exports.                                                        *)
(*                                                                         *)
(* Lengths are metres, speeds km/h, times whole seconds since the Unix     *)
(* epoch.  Library calls (networkx, pandas, datetime/zoneinfo, uuid) are   *)
(* modelled by what they do at the call sites of the script.               *)
(***************************************************************************)
EXTENDS Integers, Sequences, FiniteSets, TLC

(***************************************************************************)
(* Bounds of the model and the small sets the inputs are drawn from.       *)
(***************************************************************************)
\* the number of trips requested (line 108), scaled down from 20000
num_trips == 2
\* how many times uuid4 may return a value it returned before, where the
\* model lets it
MaxCollisions == 1
\* requested trip lengths are RadiusStep * k metres for k in 0..MaxRadiusSteps
MaxRadiusSteps == 3

RadiusStep == 100

\* node identifiers of the explored road networks
Nodes == {1, 2, 3, 4}
\* edge lengths (metres) of the explored road networks
Lengths == {100, 300}
\* the values the rounded log-normal draw of a trip length can take
Radii == {RadiusStep * k : k \in 0..MaxRadiusSteps} \cup {RadiusStep \div 2}
\* the values the scaled beta draw of a scooter speed (km/h) can take
Speeds == {10, 20}

(***************************************************************************)
(* Sequences and sets.                                                     *)
(***************************************************************************)
Min(S) == CHOOSE x \in S : \A y \in S : x <= y

Max(S) == CHOOSE x \in S : \A y \in S : y <= x

RECURSIVE SetToSortedSeq(_)
SetToSortedSeq(S) ==
    IF S = {} THEN <<>> ELSE <<Min(S)>> \o SetToSortedSeq(S \ {Min(S)})

Range(s) == {s[i] : i \in 1..Len(s)}

(***************************************************************************)
(* The road network: a networkx MultiDiGraph.  adj[u, v] is the list of    *)
(* the parallel edges u -> v, the edge with key k at position k + 1; an    *)
(* edge's data is a record (the attribute dict).                           *)
(***************************************************************************)
\* G.neighbors(n): the successors of n
Neighbors(g, n) == {v \in g.nodes : g.adj[n, v] # <<>>}

\* networkx's weight function on a multigraph: the minimum over parallel edges
\* the edge with key 0 taken, whatever its length
MinLength_First(g, u, v) == g.adj[u, v][1].length

MinLength(g, u, v) == Min({g.adj[u, v][k].length : k \in 1..Len(g.adj[u, v])})

\* G.subgraph(ns).copy(): the subgraph induced by ns
Subgraph(g, ns) ==
    [nodes |-> g.nodes \cap ns,
     adj   |-> [p \in Nodes \X Nodes |->
                  IF p[1] \in ns /\ p[2] \in ns THEN g.adj[p] ELSE <<>>]]

(***************************************************************************)
(* Speed and travel time of every edge (lines 55-64).                      *)
(***************************************************************************)
\* data["speed_kph"] = scooter_speed, for every edge; sp gives each edge's draw
AddSpeeds(g, sp) ==
    [g EXCEPT !.adj = [p \in Nodes \X Nodes |->
        [k \in 1..Len(g.adj[p]) |->
            [length |-> g.adj[p][k].length, speed_kph |-> sp[p][k]]]]]

\* osmnx: travel_time = (length / 1000) / (speed_kph / 3600) seconds
TravelTime(length, speed_kph) == (length * 3600) \div (speed_kph * 1000)

AddEdgeTravelTimes(g) ==
    [g EXCEPT !.adj = [p \in Nodes \X Nodes |->
        [k \in 1..Len(g.adj[p]) |->
            [length      |-> g.adj[p][k].length,
             speed_kph   |-> g.adj[p][k].speed_kph,
             travel_time |-> TravelTime(g.adj[p][k].length, g.adj[p][k].speed_kph)]]]]

(***************************************************************************)
(* networkx single_source_dijkstra(G, n, cutoff=radius, weight="length"),  *)
(* as _dijkstra_multisource computes it: dist holds the finalised          *)
(* distances, seen the tentative ones; the closest fringe node is popped,  *)
(* finalised, and its out-edges relaxed unless they exceed the cutoff.     *)
(***************************************************************************)
\* the radius taken as a number of hops: every edge costs 1
Relaxed_Hops(g, dist, seen, v, cutoff) ==
    LET better == {u \in Neighbors(g, v) :
                     /\ dist[v] + 1 <= cutoff
                     /\ u \notin DOMAIN dist
                     /\ (u \notin DOMAIN seen \/ dist[v] + 1 < seen[u])}
    IN  [u \in DOMAIN seen \cup better |->
            IF u \in better THEN dist[v] + 1 ELSE seen[u]]

\* the cutoff not applied
Relaxed_NoCutoff(g, dist, seen, v, cutoff) ==
    LET better == {u \in Neighbors(g, v) :
                     /\ u \notin DOMAIN dist
                     /\ (u \notin DOMAIN seen
                            \/ dist[v] + MinLength(g, v, u) < seen[u])}
    IN  [u \in DOMAIN seen \cup better |->
            IF u \in better THEN dist[v] + MinLength(g, v, u) ELSE seen[u]]

Relaxed(g, dist, seen, v, cutoff) ==
    LET better == {u \in Neighbors(g, v) :
                     /\ dist[v] + MinLength(g, v, u) <= cutoff
                     /\ u \notin DOMAIN dist
                     /\ (u \notin DOMAIN seen
                            \/ dist[v] + MinLength(g, v, u) < seen[u])}
    IN  [u \in DOMAIN seen \cup better |->
            IF u \in better THEN dist[v] + MinLength(g, v, u) ELSE seen[u]]

RECURSIVE DijkstraLoop(_, _, _, _)
DijkstraLoop(g, dist, seen, cutoff) ==
    LET fringe == DOMAIN seen \ DOMAIN dist IN
    IF fringe = {} THEN dist
    ELSE LET v     == CHOOSE x \in fringe : \A y \in fringe : seen[x] <= seen[y]
             dist2 == [u \in DOMAIN dist \cup {v} |->
                          IF u = v THEN seen[v] ELSE dist[u]]
         IN  DijkstraLoop(g, dist2, Relaxed(g, dist2, seen, v, cutoff), cutoff)

SingleSourceDijkstra(g, n, cutoff) ==
    DijkstraLoop(g, [u \in {} |-> 0], [u \in {n} |-> 0], cutoff)

\* nx.ego_graph(G, n, center=True, radius=r, distance="length")
\* the radius ignored: the ego graph is the whole network
EgoGraph_Whole(g, n, radius) == g

EgoGraph(g, n, radius) == Subgraph(g, DOMAIN SingleSourceDijkstra(g, n, radius))

(***************************************************************************)
(* sample_od_pair (lines 72-105), split at its two random choices.         *)
(***************************************************************************)
\* lines 79-86: the nodes of the ego graph, other than the start node, with
\* a neighbour in G that is no neighbour in the ego graph
\* the start node not excluded
BoundaryNodes_WithStart(g, ego, start_node) ==
    SetToSortedSeq({node \in ego.nodes :
        Neighbors(g, node) \ Neighbors(ego, node) # {}})

\* the set difference taken the wrong way round
BoundaryNodes_Swapped(g, ego, start_node) ==
    SetToSortedSeq({node \in ego.nodes :
        /\ node # start_node
        /\ Neighbors(ego, node) \ Neighbors(g, node) # {}})

BoundaryNodes(g, ego, start_node) ==
    SetToSortedSeq({node \in ego.nodes :
        /\ node # start_node
        /\ Neighbors(g, node) \ Neighbors(ego, node) # {}})

\* lines 91-93: without boundary nodes, every ego node but the start node
\* the boundary nodes ignored
Fallback1_AllNodes(ego, boundary_nodes, start_node) ==
    SetToSortedSeq(ego.nodes \ {start_node})

\* the start node not removed
Fallback1_KeepStart(ego, boundary_nodes, start_node) ==
    IF boundary_nodes = <<>>
    THEN SetToSortedSeq(ego.nodes)
    ELSE boundary_nodes

\* every node of the network but the start node, within the radius or not
Fallback1_GraphNodes(ego, boundary_nodes, start_node) ==
    IF boundary_nodes = <<>>
    THEN SetToSortedSeq(Nodes \ {start_node})
    ELSE boundary_nodes

Fallback1(ego, boundary_nodes, start_node) ==
    IF boundary_nodes = <<>>
    THEN SetToSortedSeq(ego.nodes \ {start_node})
    ELSE boundary_nodes

\* lines 98-102: still nothing to choose from, the start node itself
\* the empty list left as it is
Fallback2_None(boundary_nodes, start_node) == boundary_nodes

Fallback2(boundary_nodes, start_node) ==
    IF boundary_nodes = <<>> THEN <<start_node>> ELSE boundary_nodes

\* the list random.choice draws end_node from (line 104)
EndNodeChoices(g, start_node, requested_trip_length) ==
    LET ego == EgoGraph(g, start_node, requested_trip_length)
    IN  Fallback2(Fallback1(ego, BoundaryNodes(g, ego, start_node), start_node),
                  start_node)


(***************************************************************************)
(* The road networks explored.  A network is given by the lengths of its   *)
(* edges (what graph_from_place returns, line 47); speeds and travel       *)
(* times are added to it by lines 55-64.                                   *)
(***************************************************************************)
Pairs == {p \in Nodes \X Nodes : p[1] < p[2]}

Raw(lens) ==
    [nodes |-> Nodes,
     adj   |-> [p \in Nodes \X Nodes |->
                  [k \in 1..Len(lens[p]) |-> [length |-> lens[p][k]]]]]

\* two-way streets only: every pair of nodes is unconnected or joined by one
\* edge in each direction, both of the same length
TwoWayGraphs ==
    {Raw([p \in Nodes \X Nodes |->
            IF p[1] = p[2] THEN <<>>
            ELSE IF p[1] < p[2] THEN st[p] ELSE st[<<p[2], p[1]>>]]) :
        st \in [Pairs -> {<<>>} \cup {<<l>> : l \in Lengths}]}

\* one-way streets, of length zero or the shortest length, among the nodes
\* other than the last, which stays isolated
OneWayNodes == Nodes \ {CHOOSE n \in Nodes : \A m \in Nodes : m <= n}

OneWayGraphs ==
    {Raw([p \in Nodes \X Nodes |->
            IF p \in DOMAIN st THEN st[p] ELSE <<>>]) :
        st \in [{p \in OneWayNodes \X OneWayNodes : p[1] # p[2]} ->
                   {<<>>, <<0>>, <<Min(Lengths)>>}]}

\* a chain of two-way streets 1 - 2 - 3 - 4 with a second, parallel edge from
\* each node to its successor
ParallelGraphs ==
    {Raw([p \in Nodes \X Nodes |->
            IF p[2] = p[1] + 1 THEN <<l[1], l[2]>>
            ELSE IF p[1] = p[2] + 1 THEN <<l[1]>>
            ELSE <<>>]) :
        l \in Lengths \X Lengths}

\* every edge at the same speed
UniformSpeed(g, s) ==
    [p \in Nodes \X Nodes |-> [k \in 1..Len(g.adj[p]) |-> s]]

\* the graph after lines 55-64
Built(g, sp) == AddEdgeTravelTimes(AddSpeeds(g, sp))

ODGraphs ==
    {Built(g, UniformSpeed(g, CHOOSE s \in Speeds : TRUE)) :
        g \in TwoWayGraphs \cup OneWayGraphs \cup ParallelGraphs}

(***************************************************************************)
(* The networks the whole script is run on: chains of two-way streets      *)
(* 1 - 2 - 3 (node 4 isolated), the first street possibly of length zero,  *)
(* and one with a second, shorter parallel edge 1 -> 2 under key 1.        *)
(***************************************************************************)
Chain(l1, l2, extra) ==
    Raw([p \in Nodes \X Nodes |->
            IF p = <<1, 2>> THEN <<l1>> \o extra
            ELSE IF p = <<2, 1>> THEN <<l1>>
            ELSE IF p \in {<<2, 3>>, <<3, 2>>} THEN <<l2>>
            ELSE <<>>])

PipelineGraphs ==
    {Chain(l1, l2, <<>>) : l1 \in {0, Min(Lengths)}, l2 \in Lengths}
    \cup {Chain(Max(Lengths), Min(Lengths), <<Min(Lengths)>>)}

\* the speed draws explored: one speed on all edges, or one speed on the
\* edges towards higher node numbers and another on the edges back
SpeedDraws(g) ==
    {[p \in Nodes \X Nodes |->
        [k \in 1..Len(g.adj[p]) |-> IF p[1] < p[2] THEN s[1] ELSE s[2]]] :
        s \in Speeds \X Speeds}

(***************************************************************************)
(* Routing (lines 141-153).  ox.routing.shortest_path runs networkx's      *)
(* Dijkstra search on the weight "length", parallel edges counted at       *)
(* their minimum, and returns None where networkx raises NetworkXNoPath.   *)
(* The route is rebuilt from the distances the search finalises: each      *)
(* node of the route is reached from its predecessor by an edge that       *)
(* accounts for its distance.  Which of several such routes is returned    *)
(* depends on the order of the search; all of them are kept.               *)
(***************************************************************************)
\* the simple paths of g that start at s
SimplePathsFrom(g, s) ==
    {p \in UNION {[1..n -> g.nodes] : n \in 1..Cardinality(g.nodes)} :
        /\ p[1] = s
        /\ \A i, j \in 1..Len(p) : i # j => p[i] # p[j]
        /\ \A i \in 1..(Len(p) - 1) : g.adj[p[i], p[i + 1]] # <<>>}

\* nx.path_weight(G, route, weight="length")
RECURSIVE PathWeight(_, _)
PathWeight(g, route) ==
    IF Len(route) <= 1 THEN 0
    ELSE MinLength(g, route[1], route[2]) + PathWeight(g, Tail(route))

\* a cutoff no distance of g exceeds: the search for a route has none
NoCutoff(g) ==
    1 + Cardinality(g.nodes) *
        Max({0} \cup UNION {{g.adj[p][k].length : k \in 1..Len(g.adj[p])} :
                               p \in Nodes \X Nodes})

\* the routes shortest_path may return for (u, v); empty when it returns None
ShortestPaths(g, u, v) ==
    LET dist == SingleSourceDijkstra(g, u, NoCutoff(g))
    IN  IF v \notin DOMAIN dist THEN {}
        ELSE {p \in SimplePathsFrom(g, u) :
                /\ p[Len(p)] = v
                /\ \A i \in 1..(Len(p) - 1) :
                      /\ p[i + 1] \in DOMAIN dist
                      /\ dist[p[i]] + MinLength(g, p[i], p[i + 1]) = dist[p[i + 1]]}

\* line 163: the success rate as the log line gives it, the numbers of
\* routes and of requested trips and their ratio in tenths of a percent
\* ("%.1f" of len(routes) / num_trips * 100)
\* the factor 100 left out
SuccessRate_Fraction(rs, n) ==
    [routes    |-> Len(rs),
     requested |-> n,
     tenths    |-> (2 * 10 * Len(rs) + n) \div (2 * n)]

SuccessRate(rs, n) ==
    [routes    |-> Len(rs),
     requested |-> n,
     tenths    |-> (2 * 1000 * Len(rs) + n) \div (2 * n)]

(***************************************************************************)
(* Timestamps.  A datetime in the zone Europe/Berlin is its local (wall    *)
(* clock) time, in seconds, and its fold; the zone's rules give the UTC    *)
(* offset of a local time.  Daylight saving time lasts from the first to   *)
(* the second instant of each period below (2020 to 2024).                 *)
(***************************************************************************)
start_ts == 1577833200
end_ts == 1735686000

DstPeriods ==
    {<<1585443600, 1603587600>>, <<1616893200, 1635642000>>,
     <<1648342800, 1667091600>>, <<1679792400, 1698541200>>,
     <<1711846800, 1729990800>>}

\* the zone's UTC offset at an instant
UtcOffsetAt(ts) ==
    IF \E d \in DstPeriods : d[1] <= ts /\ ts < d[2] THEN 7200 ELSE 3600

\* datetime.fromtimestamp(ts, tz=berlin_tz): fold is 1 in the repeated hour
\* after daylight saving time ends
\* the zone's offset not applied to the local time
FromTimestamp_Utc(ts) == [local |-> ts, fold |-> 0]

FromTimestamp(ts) ==
    [local |-> ts + UtcOffsetAt(ts),
     fold  |-> IF \E d \in DstPeriods : d[2] <= ts /\ ts < d[2] + 3600
               THEN 1 ELSE 0]

\* dt.utcoffset(): what zoneinfo answers for a local time and its fold
UtcOffset(dt) ==
    IF \E d \in DstPeriods : d[1] + 7200 <= dt.local /\ dt.local < d[2] + 3600
        THEN 7200
    ELSE IF \E d \in DstPeriods : d[1] + 3600 <= dt.local /\ dt.local < d[1] + 7200
        THEN (IF dt.fold = 0 THEN 3600 ELSE 7200)
    ELSE IF \E d \in DstPeriods : d[2] + 3600 <= dt.local /\ dt.local < d[2] + 7200
        THEN (IF dt.fold = 0 THEN 7200 ELSE 3600)
    ELSE 3600

\* dt + timedelta(seconds=s): the local time advances, the fold is reset
AddSeconds(dt, s) == [local |-> dt.local + s, fold |-> 0]

\* dt.isoformat(): the local time followed by the UTC offset
\* the offset left out of the string
IsoFormat_Naive(dt) == <<"str", dt.local, 0>>

IsoFormat(dt) == <<"str", dt.local, UtcOffset(dt)>>

\* the values random.uniform(start_ts, end_ts) is explored at: the ends of
\* the window and, on 25 October 2020, an instant in the hour before the
\* clocks go back (02:40+02:00) and one in the repeated hour (02:30+01:00)
RandomTsSamples == {start_ts, 1603586400, 1603589400, end_ts}

(***************************************************************************)
(* uuid.uuid4().  drawn lists the values returned so far; a call returns   *)
(* a value never returned before or, where repeats are let in, a value     *)
(* returned before.                                                        *)
(***************************************************************************)
\* every call returns the same value
Uuid4_Constant(drawn, repeats) == {<<"uuid", 1>>}

Uuid4(drawn, repeats) ==
    {<<"uuid", Len(drawn) + 1>>}
    \cup (IF repeats /\ Len(drawn) - Cardinality(Range(drawn)) < MaxCollisions
          THEN Range(drawn) ELSE {})

(***************************************************************************)
(* pandas.  A DataFrame is its index (with the index's name), its columns  *)
(* and its rows, a row giving a value for each column.                     *)
(***************************************************************************)
NaN == <<"NaN">>

\* pd.DataFrame()
EmptyFrame == [index_name |-> "", index |-> <<>>, columns |-> <<>>, rows |-> <<>>]

EventColumns == <<"event_id", "trip_id", "timestamp", "latitude", "longitude">>

\* pd.DataFrame([event])
FrameOf(event) ==
    [index_name |-> "", index |-> << <<"int", 0>> >>,
     columns |-> EventColumns, rows |-> <<event>>]

\* df.empty
IsEmpty(df) == Len(df.index) = 0 \/ Len(df.columns) = 0

\* df.set_index(col, inplace=True): the column becomes the index
SetIndex(df, col) ==
    [index_name |-> col,
     index      |-> [i \in 1..Len(df.rows) |-> df.rows[i][col]],
     columns    |-> SelectSeq(df.columns, LAMBDA c : c # col),
     rows       |-> [i \in 1..Len(df.rows) |->
                       [c \in Range(df.columns) \ {col} |-> df.rows[i][c]]]]

\* pd.concat([a, b], ignore_index=True): the rows of a, then of b, over the
\* union of the columns, a missing value being NaN; the index is dropped and
\* replaced by 0, 1, ...
\* the new rows put in front of the old ones
Concat_Prepend(a, b) ==
    LET columns == a.columns \o SelectSeq(b.columns, LAMBDA c : c \notin Range(a.columns))
        Wide(df, i) == [c \in Range(columns) |->
                          IF c \in Range(df.columns) THEN df.rows[i][c] ELSE NaN]
    IN  [index_name |-> "",
         index      |-> [i \in 1..(Len(a.rows) + Len(b.rows)) |-> <<"int", i - 1>>],
         columns    |-> columns,
         rows       |-> [i \in 1..(Len(a.rows) + Len(b.rows)) |->
                           IF i <= Len(b.rows) THEN Wide(b, i)
                           ELSE Wide(a, i - Len(b.rows))]]

Concat(a, b) ==
    LET columns == a.columns \o SelectSeq(b.columns, LAMBDA c : c \notin Range(a.columns))
        Wide(df, i) == [c \in Range(columns) |->
                          IF c \in Range(df.columns) THEN df.rows[i][c] ELSE NaN]
    IN  [index_name |-> "",
         index      |-> [i \in 1..(Len(a.rows) + Len(b.rows)) |-> <<"int", i - 1>>],
         columns    |-> columns,
         rows       |-> [i \in 1..(Len(a.rows) + Len(b.rows)) |->
                           IF i <= Len(a.rows) THEN Wide(a, i)
                           ELSE Wide(b, i - Len(a.rows))]]

\* events.index.is_unique
IndexIsUnique(df) ==
    \A i, j \in 1..Len(df.index) : i # j => df.index[i] # df.index[j]

\* the order of two isoformat strings of the same layout: by the local time,
\* then by the text of the offset
StrLessEq(a, b) == a[2] < b[2] \/ (a[2] = b[2] /\ a[3] <= b[3])

\* df.sort_values(col): the rows in ascending order of the column's strings
RECURSIVE SortedOrder(_, _, _)
SortedOrder(df, col, left) ==
    IF left = {} THEN <<>>
    ELSE LET i == CHOOSE x \in left : \A y \in left :
                    \/ ~StrLessEq(df.rows[y][col], df.rows[x][col])
                    \/ (StrLessEq(df.rows[x][col], df.rows[y][col]) /\ x <= y)
         IN  <<i>> \o SortedOrder(df, col, left \ {i})

SortValues(df, col) ==
    LET order == SortedOrder(df, col, 1..Len(df.rows))
    IN  [df EXCEPT !.index = [i \in 1..Len(order) |-> df.index[order[i]]],
                   !.rows  = [i \in 1..Len(order) |-> df.rows[order[i]]]]

\* df.to_csv(path, index=False): the columns and the rows, without the index
ToCsv(df) == [columns |-> df.columns, rows |-> df.rows]

\* lines 200-204: the event appended to events
\* the event put in the place of the events so far
Accumulate_Replace(df, event) == SetIndex(FrameOf(event), "event_id")

Accumulate(df, event) ==
    IF ~IsEmpty(df) THEN Concat(df, FrameOf(event))
    ELSE SetIndex(FrameOf(event), "event_id")

(***************************************************************************)
(* The state of the script.                                                *)
(***************************************************************************)
VARIABLES
    pc,                      \* the cell / loop the script is in
    G,                       \* the road network
    requested_trip_lengths,  \* line 110
    od_pairs,                \* line 123
    sampled,                 \* history: the locals of each sample_od_pair call
    routes,                  \* line 138
    route_lengths,           \* line 139
    trip,                    \* the locals of the loop of lines 175-212
    events,                  \* line 170
    emitted,                 \* history: each event as created, with its route
    uuids,                   \* the values uuid4 has returned
    files,                   \* the CSV files written
    log,                     \* the records written through logging
    routed,                  \* history: what shortest_path returned per OD pair
    reported,                \* the success rate logged at line 163
    generate_data,           \* the globals of generate-data.py
    timestamp_stats          \* the locals of main() of timestamp_stats.py

\* the state of load-generator.py
load_generator == <<pc, G, requested_trip_lengths, od_pairs, sampled, routes,
                    route_lengths, trip, events, emitted, uuids, files, log,
                    routed, reported>>

vars == <<pc, G, requested_trip_lengths, od_pairs, sampled, routes,
          route_lengths, trip, events, emitted, uuids, files, log,
          routed, reported, generate_data, timestamp_stats>>

\* shortest_path's None
None == <<>>

NoTrip == [i |-> 0, trip_id |-> NaN, u |-> -1, u_idx |-> 0, prev_u |-> -1,
           random_ts |-> 0, timestamp_at_u |-> [local |-> 0, fold |-> 0]]

NoGraph == [nodes |-> {}, adj |-> [p \in Nodes \X Nodes |-> <<>>]]

\* generate-data.py not started
NoRoutes == [pc |-> "idle", G |-> NoGraph, now |-> 0, rid |-> 0,
             start_time |-> 0, all_records |-> <<>>, file |-> <<>>]

\* timestamp_stats.py not started
NoStats == [pc |-> "idle", rows |-> <<>>, ts_index |-> 0, row_num |-> 1,
            min_ts |-> None,
            max_ts |-> None, sum_ts |-> <<0, 0>>, count |-> 0, mean_ts |-> None,
            accepted |-> <<>>, out |-> <<>>]

\* load-generator.py before its first cell runs
NotStarted ==
    /\ pc = "load"
    /\ G = NoGraph
    /\ requested_trip_lengths = <<>>
    /\ od_pairs = <<>>
    /\ sampled = <<>>
    /\ routes = <<>>
    /\ route_lengths = <<>>
    /\ trip = NoTrip
    /\ events = EmptyFrame
    /\ emitted = <<>>
    /\ uuids = <<>>
    /\ files = <<>>
    /\ log = <<>>
    /\ routed = <<>>
    /\ reported = <<>>

\* the state before the first cell runs
Init ==
    /\ NotStarted
    /\ generate_data = NoRoutes
    /\ timestamp_stats = NoStats

\* a network of nodes without any edge
EdgelessGraph == Raw([p \in Nodes \X Nodes |-> <<>>])

\* the edges of g, as (u, v, key)
Edges(g) ==
    UNION {{<<p[1], p[2], k - 1>> : k \in 1..Len(g.adj[p])} : p \in Nodes \X Nodes}

\* line 49: ox.project_graph turns the edges into a GeoDataFrame
\* (graph_to_gdfs), which raises ValueError on a graph without edges
\* a graph without edges let through
ProjectGraphRaises_Never(g) == FALSE

ProjectGraphRaises(g) == Edges(g) = {}

\* lines 47-50: the network is obtained and projected
LoadGraph ==
    /\ pc = "load"
    /\ G' \in PipelineGraphs \cup {EdgelessGraph}
    /\ pc' = IF ProjectGraphRaises(G') THEN "aborted" ELSE "speeds"
    /\ UNCHANGED <<requested_trip_lengths, od_pairs, sampled, routes,
                   route_lengths, trip, events, emitted, uuids, files, log,
                   routed, reported, generate_data, timestamp_stats>>

\* line 47: graph_from_place raises, the script ends
LoadFails ==
    /\ pc = "load"
    /\ pc' = "aborted"
    /\ UNCHANGED <<G, requested_trip_lengths, od_pairs, sampled, routes,
                   route_lengths, trip, events, emitted, uuids, files, log,
                   routed, reported, generate_data, timestamp_stats>>

\* lines 55-60: a speed for every edge
AssignSpeeds ==
    /\ pc = "speeds"
    /\ \E sp \in SpeedDraws(G) : G' = AddSpeeds(G, sp)
    /\ pc' = "travel_times"
    /\ UNCHANGED <<requested_trip_lengths, od_pairs, sampled, routes,
                   route_lengths, trip, events, emitted, uuids, files, log,
                   routed, reported, generate_data, timestamp_stats>>

\* line 64
AddTravelTimes ==
    /\ pc = "travel_times"
    /\ G' = AddEdgeTravelTimes(G)
    /\ pc' = "lengths"
    /\ UNCHANGED <<requested_trip_lengths, od_pairs, sampled, routes,
                   route_lengths, trip, events, emitted, uuids, files, log,
                   routed, reported, generate_data, timestamp_stats>>

\* lines 108-117: one draw of num_trips trip lengths
DrawTripLengths ==
    /\ pc = "lengths"
    /\ requested_trip_lengths' \in [1..num_trips -> Radii]
    /\ pc' = "sample"
    /\ UNCHANGED <<G, od_pairs, sampled, routes, route_lengths, trip, events,
                   emitted, uuids, files, log,
                   routed, reported, generate_data, timestamp_stats>>

\* the warnings of lines 94 and 99
FallbackWarnings(ego, boundary_nodes, start_node) ==
    (IF boundary_nodes = <<>>
        THEN <<"WARNING: no boundary nodes, falling back to all nodes within radius">>
        ELSE <<>>)
    \o
    (IF Fallback1(ego, boundary_nodes, start_node) = <<>>
        THEN <<"WARNING: no valid end nodes, falling back to the start node">>
        ELSE <<>>)

\* G once nx.ego_graph has returned (line 74): the ego graph is a copy,
\* G.subgraph(...).copy(), and G is as it was
\* the graph cut down to the ego graph in place
AfterEgoGraph_InPlace(g, ego) == ego

AfterEgoGraph(g, ego) == g

\* sample_od_pair raises: list.remove (line 92) of a start node that is not
\* in the list, or random.choice (line 104) from an empty list
SampleRaises(ego, boundary_nodes, start_node, choices) ==
    \/ boundary_nodes = <<>> /\ start_node \notin ego.nodes
    \/ choices = <<>>

\* one iteration of the loop of lines 124-128: od_pair = sample_od_pair(...)
SampleODPair ==
    /\ pc = "sample"
    /\ Len(od_pairs) < Len(requested_trip_lengths)
    /\ LET requested_trip_length == requested_trip_lengths[Len(od_pairs) + 1]
           nodes == SetToSortedSeq(G.nodes)
       IN  \E start_node \in Range(nodes) :
             LET ego == EgoGraph(G, start_node, requested_trip_length)
                 boundary_nodes == BoundaryNodes(G, ego, start_node)
                 choices == EndNodeChoices(G, start_node, requested_trip_length)
             IN  /\ G' = AfterEgoGraph(G, ego)
                 /\ IF SampleRaises(ego, boundary_nodes, start_node, choices)
                    THEN /\ pc' = "aborted"
                         /\ UNCHANGED <<od_pairs, sampled, log>>
                    ELSE \E end_node \in Range(choices) :
                         /\ od_pairs' = Append(od_pairs, <<start_node, end_node>>)
                         /\ sampled' = Append(sampled,
                               [requested_trip_length |-> requested_trip_length,
                                start_node            |-> start_node,
                                nodes_within_radius   |-> ego.nodes,
                                boundary_nodes        |-> boundary_nodes,
                                end_node              |-> end_node])
                         /\ log' = log \o FallbackWarnings(ego, boundary_nodes,
                                                           start_node)
                         /\ pc' = IF Len(od_pairs') = Len(requested_trip_lengths)
                                  THEN "route" ELSE "sample"
    /\ UNCHANGED <<requested_trip_lengths, routes, route_lengths, trip,
                   events, emitted, uuids, files,
                   routed, reported, generate_data, timestamp_stats>>

\* where the script goes once every OD pair has been handled: to the trips,
\* or past the loop of line 175 when there is no route
AfterRouting(rs) == IF rs = <<>> THEN "check" ELSE "trip"

\* line 143: the call of shortest_path for the pair (u, v), on G as it is
\* a route found earlier from the same origin is handed out again
RouteFor_Memo(u, v) ==
    IF \E j \in 1..Len(routes) : routes[j][1] = u
    THEN {routes[j] : j \in {n \in 1..Len(routes) : routes[n][1] = u}}
    ELSE ShortestPaths(G, u, v)

RouteFor(u, v) == ShortestPaths(G, u, v)

\* one iteration of the loop of lines 141-156; trip.i counts the pairs done
ComputeRoute ==
    /\ pc = "route"
    /\ LET u == od_pairs[trip.i + 1][1]
           v == od_pairs[trip.i + 1][2]
           last == trip.i + 1 = Len(od_pairs)
           report == IF last THEN <<"INFO: computed routes, success rate">> ELSE <<>>
       IN  /\ IF RouteFor(u, v) = {}
              THEN /\ log' = log \o <<"WARNING: route could not be computed, skipping">>
                                   \o report
                   /\ routed' = Append(routed, None)
                   /\ UNCHANGED <<routes, route_lengths>>
              ELSE \E route \in RouteFor(u, v) :
                   /\ routes' = Append(routes, route)
                   /\ route_lengths' = Append(route_lengths, PathWeight(G, route))
                   /\ routed' = Append(routed, route)
                   /\ log' = log \o report
           /\ pc' = IF last THEN AfterRouting(routes') ELSE "route"
           /\ reported' = IF last THEN <<SuccessRate(routes', num_trips)>>
                          ELSE reported
    /\ trip' = IF trip.i + 1 = Len(od_pairs) THEN NoTrip
               ELSE [trip EXCEPT !.i = trip.i + 1]
    /\ UNCHANGED <<G, requested_trip_lengths, od_pairs, sampled, events,
                   emitted, uuids, files, generate_data, timestamp_stats>>

\* lines 175-181: the next route is taken up; trip.i is its index in routes
BeginTrip(repeats) ==
    /\ pc = "trip"
    /\ \E trip_id \in Uuid4(uuids, repeats) :
          /\ trip' = [i |-> trip.i + 1, trip_id |-> trip_id,
                      u |-> routes[trip.i + 1][1], u_idx |-> 0, prev_u |-> -1,
                      random_ts |-> 0,
                      timestamp_at_u |-> [local |-> 0, fold |-> 0]]
          /\ uuids' = Append(uuids, trip_id)
    /\ pc' = "event"
    /\ UNCHANGED <<G, requested_trip_lengths, od_pairs, sampled, routes,
                   route_lengths, events, emitted, files, log,
                   routed, reported, generate_data, timestamp_stats>>

\* lines 183-190: the timestamp at node u
TimestampAtU(t, random_ts) ==
    IF t.prev_u = -1
    THEN FromTimestamp(random_ts)
    ELSE AddSeconds(t.timestamp_at_u, G.adj[t.prev_u, t.u][1].travel_time)

\* lines 182-212: one iteration of the while loop
EmitEvent(repeats) ==
    /\ pc = "event"
    /\ \E random_ts \in (IF trip.prev_u = -1 THEN RandomTsSamples
                          ELSE {trip.random_ts}) :
       \E event_id \in Uuid4(uuids, repeats) :
          LET route == routes[trip.i]
              timestamp_at_u == TimestampAtU(trip, random_ts)
              event == [event_id  |-> event_id,
                        trip_id   |-> trip.trip_id,
                        timestamp |-> IsoFormat(timestamp_at_u),
                        latitude  |-> <<"float", "y", trip.u>>,
                        longitude |-> <<"float", "x", trip.u>>]
          IN  /\ uuids' = Append(uuids, event_id)
              /\ events' = Accumulate(events, event)
              /\ emitted' = Append(emitted,
                    [route |-> trip.i, u_idx |-> trip.u_idx, event |-> event,
                     random_ts |-> random_ts, prev_u |-> trip.prev_u, u |-> trip.u,
                     travel_time |-> IF trip.prev_u = -1 THEN 0
                                     ELSE G.adj[trip.prev_u, trip.u][1].travel_time])
              /\ IF trip.u_idx < Len(route) - 1
                 THEN /\ trip' = [trip EXCEPT !.prev_u = trip.u,
                                              !.random_ts = random_ts,
                                              !.u_idx = trip.u_idx + 1,
                                              !.u = route[trip.u_idx + 2],
                                              !.timestamp_at_u = timestamp_at_u]
                      /\ pc' = "event"
                 ELSE /\ trip' = [trip EXCEPT !.random_ts = random_ts,
                                              !.timestamp_at_u = timestamp_at_u]
                      /\ pc' = IF trip.i = Len(routes) THEN "check" ELSE "trip"
    /\ UNCHANGED <<G, requested_trip_lengths, od_pairs, sampled, routes,
                   route_lengths, files, log,
                   routed, reported, generate_data, timestamp_stats>>

\* lines 214-217
CheckUnique ==
    /\ pc = "check"
    /\ log' = IF ~IndexIsUnique(events)
              THEN Append(log, "ERROR: Event IDs are not unique")
              ELSE log
    /\ pc' = "export"
    /\ UNCHANGED <<G, requested_trip_lengths, od_pairs, sampled, routes,
                   route_lengths, trip, events, emitted, uuids, files,
                   routed, reported, generate_data, timestamp_stats>>

\* lines 220-223: the two files, the second sorted by timestamp
\* the sorted file left out
ExportedFiles_Unsorted(df) == <<ToCsv(df)>>

ExportedFiles(df) == <<ToCsv(df), ToCsv(SortValues(df, "timestamp"))>>

\* lines 220-226; sort_values raises KeyError without a timestamp column
Export ==
    /\ pc = "export"
    /\ IF "timestamp" \in Range(events.columns)
       THEN /\ files' = ExportedFiles(events)
            /\ log' = Append(log, "INFO: exported events")
            /\ pc' = "done"
       ELSE /\ files' = <<ToCsv(events)>>
            /\ log' = log
            /\ pc' = "aborted"
    /\ UNCHANGED <<G, requested_trip_lengths, od_pairs, sampled, routes,
                   route_lengths, trip, events, emitted, uuids,
                   routed, reported, generate_data, timestamp_stats>>

Next ==
    \/ LoadGraph
    \/ LoadFails
    \/ AssignSpeeds
    \/ AddTravelTimes
    \/ DrawTripLengths
    \/ SampleODPair
    \/ ComputeRoute
    \/ BeginTrip(FALSE)
    \/ EmitEvent(FALSE)
    \/ CheckUnique
    \/ Export

Spec == Init /\ [][Next]_vars

(***************************************************************************)
(* OD sampling on its own: any explored network, built, and one requested  *)
(* trip length; sample_od_pair is applied to it.                           *)
(***************************************************************************)
InitSampling(graphs, n) ==
    /\ pc = "sample"
    /\ G \in graphs
    /\ requested_trip_lengths \in [1..n -> Radii]
    /\ od_pairs = <<>>
    /\ sampled = <<>>
    /\ routes = <<>>
    /\ route_lengths = <<>>
    /\ trip = NoTrip
    /\ events = EmptyFrame
    /\ emitted = <<>>
    /\ uuids = <<>>
    /\ files = <<>>
    /\ log = <<>>
    /\ routed = <<>>
    /\ reported = <<>>
    /\ generate_data = NoRoutes
    /\ timestamp_stats = NoStats

InitOD == InitSampling(ODGraphs, 1)

NextOD == SampleODPair

SpecOD == InitOD /\ [][NextOD]_vars

(***************************************************************************)
(* The script from OD sampling on, for one trip on a built chain network,  *)
(* with uuid4 let return a value it returned before.                       *)
(***************************************************************************)
InitRepeats ==
    InitSampling({Built(g, UniformSpeed(g, s)) :
                    g \in PipelineGraphs, s \in Speeds}, 1)

NextRepeats ==
    \/ SampleODPair
    \/ ComputeRoute
    \/ BeginTrip(TRUE)
    \/ EmitEvent(TRUE)
    \/ CheckUnique
    \/ Export

SpecRepeats == InitRepeats /\ [][NextRepeats]_vars

(***************************************************************************)
(* OD sampling followed by routing: any explored network, built, one       *)
(* requested trip length; the pair that is sampled is routed.              *)
(***************************************************************************)
NextODRoute ==
    \/ SampleODPair
    \/ ComputeRoute

SpecODRoute == InitOD /\ [][NextODRoute]_vars

(***************************************************************************)
(* Routing on its own: the loop of lines 141-156 is handed a built network *)
(* and a list of n OD pairs, any nodes of the network, joined by a path or *)
(* not.                                                                    *)
(***************************************************************************)
InitRouting(graphs, n) ==
    /\ pc = "route"
    /\ G \in graphs
    /\ requested_trip_lengths = <<>>
    /\ od_pairs \in [1..n -> Nodes \X Nodes]
    /\ sampled = <<>>
    /\ routes = <<>>
    /\ route_lengths = <<>>
    /\ trip = NoTrip
    /\ events = EmptyFrame
    /\ emitted = <<>>
    /\ uuids = <<>>
    /\ files = <<>>
    /\ log = <<>>
    /\ routed = <<>>
    /\ reported = <<>>
    /\ generate_data = NoRoutes
    /\ timestamp_stats = NoStats

\* one OD pair on any explored network
InitRoute == InitRouting(ODGraphs, 1)

NextRoute == ComputeRoute

SpecRoute == InitRoute /\ [][NextRoute]_vars

\* num_trips OD pairs on a chain network, and the script from routing on
InitDrop ==
    InitRouting({Built(g, UniformSpeed(g, s)) :
                    g \in PipelineGraphs, s \in Speeds}, num_trips)

NextDrop ==
    \/ ComputeRoute
    \/ BeginTrip(FALSE)
    \/ EmitEvent(FALSE)
    \/ CheckUnique
    \/ Export

SpecDrop == InitDrop /\ [][NextDrop]_vars

(***************************************************************************)
(* generate-data.py, from line 54 on: num_routes routes between random     *)
(* nodes, each started at a random time before now.  datetime.utcnow() is  *)
(* a naive datetime, here its seconds since the epoch; the draws of        *)
(* random.uniform are given in tenths of their unit.                       *)
(***************************************************************************)
\* the number of routes (line 54), scaled down from 10
num_routes == 2

\* the values explored for uniform(0, 7), uniform(0, 24) and uniform(0, 60),
\* in tenths of a day, of an hour and of a minute
DaysDraws == {0, 35, 69}

HoursDraws == {0, 239}

MinutesDraws == {0, 599}

\* the values explored for uniform(4, 6), km/h
SpeedKmhDraws == {4, 6}

\* the values explored for datetime.utcnow()
NowSamples == {1603589400, 1700000000}

\* the networks generate-data.py is explored on, edges with their length
RouteGraphs ==
    {Chain(Min(Lengths), Max(Lengths), <<>>),
     Chain(Max(Lengths), Min(Lengths), <<Min(Lengths)>>)}

\* timedelta(days=, hours=, minutes=) in seconds, the arguments in tenths
Timedelta(days, hours, minutes) == days * 8640 + hours * 360 + minutes * 6

\* lines 59-61
StartOffset(days, hours, minutes) == Timedelta(days, hours, minutes)

\* line 62
StartTime(now, start_offset) == now - start_offset

\* lines 27-28 and 49: length_m / (speed_kmh * 1000 / 3600), in seconds
TravelSecs(length_m, speed_kmh) == (length_m * 3600) \div (speed_kmh * 1000)

\* isoformat of a naive datetime
NaiveIsoFormat(t) == <<"str", t>>

\* current_time when the seq-th node of path is recorded (lines 32, 45-50):
\* the edge with key 0 to each next node, at its length
RECURSIVE CurrentTime(_, _, _, _, _)
CurrentTime(g, path, speed_kmh, start_time, seq) ==
    IF seq = 1 THEN start_time
    ELSE CurrentTime(g, path, speed_kmh, start_time, seq - 1)
            + TravelSecs(g.adj[path[seq - 1], path[seq]][1].length, speed_kmh)

\* lines 31-51: the records of sample_route_data for the path found
SampleRouteData(route_id, g, start_time, path, speed_kmh) ==
    [seq \in 1..Len(path) |->
        [route_id  |-> route_id,
         sequence  |-> seq,
         latitude  |-> <<"float", "y", path[seq]>>,
         longitude |-> <<"float", "x", path[seq]>>,
         timestamp |-> NaiveIsoFormat(CurrentTime(g, path, speed_kmh,
                                                  start_time, seq))]]

\* lines 57-63: one iteration of the loop; nx.shortest_path raises
\* NetworkXNoPath where there is no path, which nothing catches
SampleRoute ==
    /\ generate_data.pc = "loop"
    /\ \E days \in DaysDraws, hours \in HoursDraws, minutes \in MinutesDraws,
          origin \in generate_data.G.nodes, destination \in generate_data.G.nodes,
          speed_kmh \in SpeedKmhDraws :
          LET g == generate_data.G
              rid == generate_data.rid
              start_offset == StartOffset(days, hours, minutes)
              start_time == StartTime(generate_data.now, start_offset)
          IN  IF ShortestPaths(g, origin, destination) = {}
              THEN generate_data' = [generate_data EXCEPT
                                        !.pc = "aborted",
                                        !.start_time = start_time]
              ELSE \E path \in ShortestPaths(g, origin, destination) :
                      generate_data' = [generate_data EXCEPT
                          !.pc = IF rid = num_routes THEN "dump" ELSE "loop",
                          !.rid = IF rid = num_routes THEN rid ELSE rid + 1,
                          !.start_time = start_time,
                          !.all_records = @ \o SampleRouteData(rid, g, start_time,
                                                               path, speed_kmh)]
    /\ UNCHANGED <<load_generator, timestamp_stats>>

\* lines 66-67: the records written to spatiotemporal_routes.csv
DumpRoutes ==
    /\ generate_data.pc = "dump"
    /\ generate_data' = [generate_data EXCEPT
                            !.pc = "done",
                            !.file = <<generate_data.all_records>>]
    /\ UNCHANGED <<load_generator, timestamp_stats>>

\* generate-data.py at line 54, on a network with edge lengths
InitStartTime ==
    /\ NotStarted
    /\ timestamp_stats = NoStats
    /\ \E g \in RouteGraphs, now \in NowSamples :
          generate_data = [NoRoutes EXCEPT !.pc = "loop", !.G = g,
                                           !.now = now, !.rid = 1]

NextStartTime == SampleRoute \/ DumpRoutes

SpecStartTime == InitStartTime /\ [][NextStartTime]_vars

(***************************************************************************)
(* timestamp_stats.py.  A CSV field is a string, here the list of its      *)
(* parts: a run of whitespace, the word timestamp in lower or upper case,  *)
(* some other text, or an ISO-8601 date with its offset as isoformat       *)
(* writes it.  None is the empty list and a number n that may be None is   *)
(* the list <<n>>.  sum_ts, a float that grows past 2^31, is the pair of    *)
(* its billions and the rest.                                              *)
(***************************************************************************)
\* the largest number of data rows of the files explored
MaxRows == 3

Whitespace == <<" ", 0, 0>>

TimestampWord(upper) == <<"timestamp", upper, 0>>

OtherText == <<"text", 0, 0>>

\* the instants whose ISO dates occur in the files explored
StatsTsSamples == {start_ts, 1603586400, 1603589400}

\* the timestamp fields explored: empty, blank, a repeated header in either
\* case, text, a date with a blank in front, and dates
TimestampFields ==
    {<<>>, <<Whitespace>>, <<TimestampWord(0)>>,
     <<Whitespace, TimestampWord(1), Whitespace>>, <<OtherText>>,
     <<Whitespace, IsoFormat(FromTimestamp(start_ts))>>}
    \cup {<<IsoFormat(FromTimestamp(ts))>> : ts \in StatsTsSamples}

\* the headers explored: the timestamp in the first column, in the second
\* column, and missing
Headers ==
    {<<<<TimestampWord(0)>>>>, <<<<OtherText>>, <<TimestampWord(0)>>>>,
     <<<<OtherText>>>>}

\* the data rows explored under a header
DataRows(header) ==
    IF Len(header) = 1
    THEN {<<>>} \cup {<<f>> : f \in TimestampFields}
    ELSE {<<>>, <<<<OtherText>>>>} \cup {<<<<OtherText>>, f>> : f \in TimestampFields}

\* the files explored, as csv.reader yields them: no row at all, or a header
\* and up to MaxRows data rows
CsvFiles ==
    {<<>>} \cup
    UNION {UNION {{<<header>> \o rows : rows \in [1..n -> DataRows(header)]} :
                     n \in 0..MaxRows} :
              header \in Headers}

\* header.index("timestamp"), counted from 1; 0 where it raises ValueError
HeaderIndex(header) ==
    IF \E i \in 1..Len(header) : header[i] = <<TimestampWord(0)>>
    THEN Min({i \in 1..Len(header) : header[i] = <<TimestampWord(0)>>})
    ELSE 0

\* str.strip(): leading and trailing whitespace removed
RECURSIVE Strip(_)
Strip(value) ==
    IF value = <<>> THEN value
    ELSE IF Head(value) = Whitespace THEN Strip(Tail(value))
    ELSE IF value[Len(value)] = Whitespace
         THEN Strip(SubSeq(value, 1, Len(value) - 1))
    ELSE value

\* str.lower()
Lower(value) ==
    [i \in 1..Len(value) |->
        IF value[i][1] = "timestamp" THEN TimestampWord(0) ELSE value[i]]

\* lines 53-54: parser.isoparse(value).timestamp(), None for ValueError;
\* isoparse accepts a date and nothing around it
ParseTimestamp(value) ==
    IF Len(value) = 1 /\ value[1][1] = "str"
    THEN <<value[1][2] - value[1][3]>>
    ELSE None

\* lines 36-59: the timestamp of a row, None for a row that is skipped
RowTimestamp(row, ts_index) ==
    IF Len(row) < ts_index THEN None
    ELSE IF Strip(row[ts_index]) = <<>> THEN None
    ELSE IF Lower(Strip(row[ts_index])) = <<TimestampWord(0)>> THEN None
    ELSE ParseTimestamp(row[ts_index])

\* lines 62-63
\* the latest timestamp kept
MinTs_Latest(min_ts, ts) == <<ts>>

MinTs(min_ts, ts) == IF min_ts = None \/ ts < min_ts[1] THEN <<ts>> ELSE min_ts

\* lines 66-67
MaxTs(max_ts, ts) == IF max_ts = None \/ ts > max_ts[1] THEN <<ts>> ELSE max_ts

\* line 70: sum_ts + ts
SumTs(sum_ts, ts) ==
    LET billion == 1000000000
        rest == sum_ts[2] + (ts % billion)
    IN  <<sum_ts[1] + (ts \div billion) + (rest \div billion), rest % billion>>

\* where the script goes once the reader has no more rows
AfterRows(rows) == IF rows = <<>> THEN "report" ELSE "rows"

\* lines 23-33: the header is read and the timestamp column located
ReadHeader ==
    /\ timestamp_stats.pc = "header"
    /\ timestamp_stats' =
          IF timestamp_stats.rows = <<>>
          THEN [timestamp_stats EXCEPT
                   !.pc = "exited",
                   !.out = <<"ERROR: The CSV file is empty.">>]
          ELSE IF HeaderIndex(Head(timestamp_stats.rows)) = 0
          THEN [timestamp_stats EXCEPT
                   !.pc = "exited",
                   !.rows = Tail(@),
                   !.out = <<"ERROR: No 'timestamp' column found in header!">>]
          ELSE [timestamp_stats EXCEPT
                   !.pc = AfterRows(Tail(timestamp_stats.rows)),
                   !.rows = Tail(@),
                   !.ts_index = HeaderIndex(Head(timestamp_stats.rows))]
    /\ UNCHANGED <<load_generator, generate_data>>

\* lines 35-71: one iteration of the loop over the rows
ProcessRow ==
    /\ timestamp_stats.pc = "rows"
    /\ LET row == Head(timestamp_stats.rows)
           ts == RowTimestamp(row, timestamp_stats.ts_index)
       IN  timestamp_stats' =
              IF ts = None
              THEN [timestamp_stats EXCEPT
                       !.pc = AfterRows(Tail(timestamp_stats.rows)),
                       !.rows = Tail(@),
                       !.row_num = @ + 1]
              ELSE [timestamp_stats EXCEPT
                       !.pc = AfterRows(Tail(timestamp_stats.rows)),
                       !.rows = Tail(@),
                       !.row_num = @ + 1,
                       !.min_ts = MinTs(@, ts[1]),
                       !.max_ts = MaxTs(@, ts[1]),
                       !.sum_ts = SumTs(@, ts[1]),
                       !.count = @ + 1,
                       !.accepted = Append(@, ts[1])]
    /\ UNCHANGED <<load_generator, generate_data>>

\* lines 73-87: the mean, as the pair of sum_ts and count, and the report
Report ==
    /\ timestamp_stats.pc = "report"
    /\ LET mean_ts == IF timestamp_stats.count = 0 THEN None
                      ELSE <<timestamp_stats.sum_ts, timestamp_stats.count>>
       IN  timestamp_stats' = [timestamp_stats EXCEPT
              !.pc = "done",
              !.mean_ts = mean_ts,
              !.out = <<[count |-> timestamp_stats.count,
                         min   |-> timestamp_stats.min_ts,
                         max   |-> timestamp_stats.max_ts,
                         mean  |-> mean_ts]>>]
    /\ UNCHANGED <<load_generator, generate_data>>

\* timestamp_stats.py at line 19, on each of the files explored
InitStats ==
    /\ NotStarted
    /\ generate_data = NoRoutes
    /\ \E file \in CsvFiles :
          timestamp_stats = [NoStats EXCEPT !.pc = "header", !.rows = file]

NextStats == ReadHeader \/ ProcessRow \/ Report

SpecStats == InitStats /\ [][NextStats]_vars

(***************************************************************************)
(* What the claims about OD sampling speak of, stated on the graph itself  *)
(* and not through the traversal: paths, their cumulative lengths, the     *)
(* ball of a radius around a node and its frontier.                        *)
(***************************************************************************)
\* the cumulative edge lengths of p, one for each choice of parallel edges
RECURSIVE PathLengths(_, _)
PathLengths(g, p) ==
    IF Len(p) <= 1 THEN {0}
    ELSE {g.adj[p[1], p[2]][k].length + c :
            k \in 1..Len(g.adj[p[1], p[2]]), c \in PathLengths(g, Tail(p))}

\* the nodes within cumulative edge length r of s along some path
Ball(g, s, r) ==
    {p[Len(p)] : p \in {q \in SimplePathsFrom(g, s) :
                           \E c \in PathLengths(g, q) : c <= r}}

\* the nodes of the ball, other than s, with a neighbour outside the ball
Frontier(g, s, r) ==
    LET B == Ball(g, s, r)
    IN  {n \in B \ {s} : \E m \in g.nodes \ B : g.adj[n, m] # <<>>}

\* the calls of sample_od_pair made so far
SampledIndex == 1..Len(sampled)

\* C6: whenever the ego subgraph of the chosen origin has a boundary node,
\* the returned destination is one of the boundary nodes
C6_DestinationOnBoundary ==
    \A i \in SampledIndex :
        LET t == sampled[i]
            F == Frontier(G, t.start_node, t.requested_trip_length)
        IN  /\ od_pairs[i] = <<t.start_node, t.end_node>>
            /\ F # {} => od_pairs[i][2] \in F

\* C6 witness: a pair was sampled where the boundary is not empty and is
\* smaller than the rest of the ego subgraph
C6_Witness ==
    \E i \in SampledIndex :
        LET t == sampled[i]
            F == Frontier(G, t.start_node, t.requested_trip_length)
        IN  /\ F # {}
            /\ F # Ball(G, t.start_node, t.requested_trip_length) \ {t.start_node}
            /\ od_pairs[i][2] \in F

\* C7: without boundary nodes but with another ego node, the destination is
\* an ego node other than the origin
C7_FallbackToEgoNodes ==
    \A i \in SampledIndex :
        LET t == sampled[i]
            B == Ball(G, t.start_node, t.requested_trip_length)
        IN  (Frontier(G, t.start_node, t.requested_trip_length) = {}
                /\ B \ {t.start_node} # {})
            => (od_pairs[i][2] \in B /\ od_pairs[i][2] # od_pairs[i][1])

\* C7 witness: a pair was sampled from an ego subgraph without boundary
\* nodes that holds more than the origin
C7_Witness ==
    \E i \in SampledIndex :
        LET t == sampled[i]
            B == Ball(G, t.start_node, t.requested_trip_length)
        IN  /\ Frontier(G, t.start_node, t.requested_trip_length) = {}
            /\ Cardinality(B) > 1
            /\ od_pairs[i][2] \in B \ {t.start_node}

\* C8: the destination is the origin only when the ego subgraph holds no
\* node besides the origin
C8_DegenerateOnlyWhenAlone ==
    \A i \in SampledIndex :
        od_pairs[i][2] = od_pairs[i][1]
        => Ball(G, sampled[i].start_node, sampled[i].requested_trip_length)
              = {od_pairs[i][1]}

\* C8 witness: a degenerate pair was returned for a radius above 0
C8_Witness ==
    \E i \in SampledIndex :
        /\ od_pairs[i][2] = od_pairs[i][1]
        /\ sampled[i].requested_trip_length > 0

\* the cycle 1 - 2 - 3 - 4 - 1 of two-way streets, all of the same length
UnitLength == Min(Lengths)

Cycle4 ==
    Built(Raw([p \in Nodes \X Nodes |->
                 IF p \in {<<1, 2>>, <<2, 3>>, <<3, 4>>, <<4, 1>>,
                           <<2, 1>>, <<3, 2>>, <<4, 3>>, <<1, 4>>}
                 THEN <<UnitLength>> ELSE <<>>]),
          UniformSpeed(Raw([p \in Nodes \X Nodes |-> <<0>>]),
                       CHOOSE s \in Speeds : TRUE))

\* C9: the boundary nodes computed are exactly the nodes other than the
\* origin that lie within cumulative length r of it and have a neighbour
\* outside the ego subgraph; on the 4-cycle with r one edge length from
\* node 1 the ego subgraph is {1, 2, 4} and the boundary is {2, 4}
C9_BoundaryExact ==
    \A i \in SampledIndex :
        LET t == sampled[i] IN
        /\ Range(t.boundary_nodes) = Frontier(G, t.start_node, t.requested_trip_length)
        /\ (/\ G = Cycle4
            /\ t.start_node = 1
            /\ t.requested_trip_length >= UnitLength
            /\ t.requested_trip_length < 2 * UnitLength)
           => (t.nodes_within_radius = {1, 2, 4} /\ Range(t.boundary_nodes) = {2, 4})

\* C9 witness: the 4-cycle sampled from node 1 with r one edge length
C9_Witness ==
    \E i \in SampledIndex :
        /\ G = Cycle4
        /\ sampled[i].start_node = 1
        /\ sampled[i].requested_trip_length = UnitLength
        /\ Range(sampled[i].boundary_nodes) = {2, 4}

\* C10: a node is in the ego subgraph iff its distance from the origin, the
\* least cumulative edge length of a path, is at most r
C10_EgoIsLengthBall ==
    \A i \in SampledIndex :
        sampled[i].nodes_within_radius
            = Ball(G, sampled[i].start_node, sampled[i].requested_trip_length)

\* C10 witness: a neighbour of the origin is left out as too far while a
\* node two hops away is within the radius
C10_Witness ==
    \E i \in SampledIndex :
        LET t == sampled[i] IN
        /\ \E n \in Nodes :
              G.adj[t.start_node, n] # <<>> /\ n \notin t.nodes_within_radius
        /\ \E n, m \in t.nodes_within_radius :
              /\ G.adj[t.start_node, n] # <<>> /\ G.adj[n, m] # <<>>
              /\ G.adj[t.start_node, m] = <<>> /\ m # t.start_node

\* C11: every requested trip length is a non-negative integer, and on a
\* network whose edge lengths are all non-negative a requested length of 0
\* gives a pair whose destination is its origin
C11_ZeroRadiusDegenerate ==
    /\ \A i \in 1..Len(requested_trip_lengths) : requested_trip_lengths[i] \in Nat
    /\ \A i \in SampledIndex :
          (/\ sampled[i].requested_trip_length = 0
           /\ \A p \in Nodes \X Nodes : \A k \in 1..Len(G.adj[p]) :
                 G.adj[p][k].length >= 0)
          => od_pairs[i][2] = od_pairs[i][1]

\* C11 as amended: every requested trip length is a non-negative integer,
\* and a requested length of 0 gives a pair whose destination is its origin
\* on a network where no edge of length 0 leaves the origin
C11_ZeroRadiusDegenerate_Amended ==
    /\ \A i \in 1..Len(requested_trip_lengths) : requested_trip_lengths[i] \in Nat
    /\ \A i \in SampledIndex :
          (/\ sampled[i].requested_trip_length = 0
           /\ \A n \in Nodes : \A k \in 1..Len(G.adj[od_pairs[i][1], n]) :
                 G.adj[od_pairs[i][1], n][k].length > 0)
          => od_pairs[i][2] = od_pairs[i][1]

\* C11 witness: a pair was sampled for a requested length of 0 from an
\* origin with streets leaving it, none of length 0, on a network that has
\* a street of length 0 elsewhere
C11_Witness ==
    \E i \in SampledIndex :
        /\ sampled[i].requested_trip_length = 0
        /\ Neighbors(G, od_pairs[i][1]) # {}
        /\ \A n \in Nodes : \A k \in 1..Len(G.adj[od_pairs[i][1], n]) :
              G.adj[od_pairs[i][1], n][k].length > 0
        /\ \E p \in Nodes \X Nodes : \E k \in 1..Len(G.adj[p]) :
              G.adj[p][k].length = 0
        /\ od_pairs[i][2] = od_pairs[i][1]

\* C12: sample_od_pair does not raise, and every pair it returns is made of
\* two nodes of the network; once the loop is over there is one pair for
\* each requested trip length
C12_SampleNeverFails ==
    /\ pc # "aborted"
    /\ Len(od_pairs) = Len(sampled)
    /\ \A i \in 1..Len(od_pairs) :
          od_pairs[i][1] \in G.nodes /\ od_pairs[i][2] \in G.nodes
    /\ pc # "sample" => Len(od_pairs) = Len(requested_trip_lengths)

\* C12 witness: a pair was returned after both fallbacks were taken, from an
\* origin that has a street leaving it
C12_Witness ==
    \E i \in SampledIndex :
        /\ sampled[i].boundary_nodes = <<>>
        /\ sampled[i].nodes_within_radius = {sampled[i].start_node}
        /\ Neighbors(G, sampled[i].start_node) # {}
        /\ od_pairs[i] \in G.nodes \X G.nodes
        /\ Len(log) = 2

(***************************************************************************)
(* What the claims about routing speak of.                                 *)
(***************************************************************************)
\* the paths of g from u to v
PathsBetween(g, u, v) == {p \in SimplePathsFrom(g, u) : p[Len(p)] = v}

\* the OD pairs the routing loop has handled
RoutedIndex == 1..Len(routed)

\* the position in routes of the route of OD pair i
RouteIndex(i) == Cardinality({k \in 1..i : routed[k] # None})

\* C13: for every OD pair joined by a path, the route starts at the origin,
\* ends at the destination, follows edges of the network, and no path from
\* the origin to the destination is shorter than its recorded length
C13_RouteIsShortestPath ==
    \A i \in RoutedIndex :
        LET u == od_pairs[i][1]
            v == od_pairs[i][2]
            route == routed[i]
        IN  PathsBetween(G, u, v) # {}
            => /\ route # None
               /\ Len(route) >= 1
               /\ route[1] = u /\ route[Len(route)] = v
               /\ \A n \in 1..(Len(route) - 1) : G.adj[route[n], route[n + 1]] # <<>>
               /\ routes[RouteIndex(i)] = route
               /\ route_lengths[RouteIndex(i)] \in PathLengths(G, route)
               /\ \A q \in PathsBetween(G, u, v) : \A c \in PathLengths(G, q) :
                     route_lengths[RouteIndex(i)] <= c

\* C13 witness: a route of two edges was computed for a pair that is also
\* joined by a single, longer edge
C13_Witness ==
    \E i \in RoutedIndex :
        /\ routed[i] # None
        /\ Len(routed[i]) = 3
        /\ G.adj[od_pairs[i][1], od_pairs[i][2]] # <<>>
        /\ route_lengths[RouteIndex(i)] < MinLength(G, od_pairs[i][1], od_pairs[i][2])

Instant(str) == str[2] - str[3]

\* the event_id the dataset holds for its k-th row: in the column of that
\* name, or in the index when the index is the event_id
EventIdOf(df, k) ==
    IF "event_id" \in Range(df.columns) THEN df.rows[k]["event_id"]
    ELSE IF df.index_name = "event_id" THEN df.index[k]
    ELSE NaN

\* the travel time of the edge between the nodes of events k and k + 1
HopTravelTime(k) ==
    LET route == routes[emitted[k].route]
    IN  G.adj[route[emitted[k].u_idx + 1], route[emitted[k].u_idx + 2]][1].travel_time

\* C1: within a trip the instants of consecutive events never decrease, and
\* increase when the travel time of the edge between their nodes is above 0
C1_TimestampsMonotonic ==
    \A k \in 1..(Len(emitted) - 1) :
        emitted[k].route = emitted[k + 1].route
        => LET a == Instant(events.rows[k]["timestamp"])
               b == Instant(events.rows[k + 1]["timestamp"])
           IN  a <= b /\ (HopTravelTime(k) > 0 => a < b)

\* C2: once all events are accumulated, every event of the dataset has an
\* event_id and no two events have the same
C2_EventIdsPresentAndUnique ==
    pc \in {"check", "export", "done"}
    => /\ \A k \in 1..Len(events.rows) : EventIdOf(events, k) # NaN
       /\ \A k, l \in 1..Len(events.rows) :
             k # l => EventIdOf(events, k) # EventIdOf(events, l)

\* C3: after the uniqueness check, two events created with the same event_id
\* mean an error was logged
C3_DuplicateReported ==
    (/\ pc \in {"export", "done"}
     /\ \E k, l \in 1..Len(emitted) :
           k # l /\ emitted[k].event.event_id = emitted[l].event.event_id)
    => \E n \in 1..Len(log) : log[n] = "ERROR: Event IDs are not unique"

\* C4: every row of both exported files has a value in each of the five
\* columns, and the first file's k-th row has the k-th event's event_id
C4_ExportedRowsComplete ==
    pc = "done"
    => /\ \A f \in 1..Len(files) : \A c \in Range(EventColumns) :
             /\ c \in Range(files[f].columns)
             /\ \A k \in 1..Len(files[f].rows) : files[f].rows[k][c] # NaN
       /\ \A k \in 1..Len(emitted) :
             files[1].rows[k]["event_id"] = emitted[k].event.event_id

\* C5: two events have the same trip_id exactly when they were generated
\* from the same route
C5_TripIdPerRoute ==
    \A k, l \in 1..Len(emitted) :
        (emitted[k].route = emitted[l].route)
        <=> (events.rows[k]["trip_id"] = events.rows[l]["trip_id"])

\* C5 witness: the run is over with two routes turned into events, one of
\* them into several
C5_Witness ==
    /\ pc = "done"
    /\ \E k, l \in 1..Len(emitted) : emitted[k].route # emitted[l].route
    /\ \E k, l \in 1..Len(emitted) : k # l /\ emitted[k].route = emitted[l].route

\* the events created so far from route j
EventsOfRoute(j) == {k \in 1..Len(emitted) : emitted[k].route = j}

\* C15: an OD pair whose destination is its origin gets the route made of
\* that node alone, of length 0, and one event, no more, whose timestamp is
\* the instant drawn as the start of the trip
C15_DegenerateTrip ==
    \A i \in RoutedIndex :
        od_pairs[i][1] = od_pairs[i][2]
        => LET j == RouteIndex(i)
           IN  /\ routed[i] = <<od_pairs[i][1]>>
               /\ routes[j] = routed[i]
               /\ route_lengths[j] = 0
               /\ Cardinality(EventsOfRoute(j)) <= 1
               /\ pc \in {"check", "export", "done"}
                     => Cardinality(EventsOfRoute(j)) = 1
               /\ \A k \in EventsOfRoute(j) :
                     /\ emitted[k].u = od_pairs[i][1]
                     /\ Instant(events.rows[k]["timestamp"]) = emitted[k].random_ts

\* C15 witness: the run is over with a degenerate trip, started in the
\* repeated hour, next to a trip of several events
C15_Witness ==
    /\ pc = "done"
    /\ \E i \in RoutedIndex :
          /\ od_pairs[i][1] = od_pairs[i][2]
          /\ \E k \in EventsOfRoute(RouteIndex(i)) :
                emitted[k].random_ts \notin {start_ts, end_ts}
    /\ \E j \in 1..Len(routes) : Cardinality(EventsOfRoute(j)) > 1

\* the travel time of the first n edges of a route, each edge's from its
\* length (m) and speed (km/h): length / (speed * 1000 / 3600)
RECURSIVE TravelTimeAlong(_, _)
TravelTimeAlong(route, n) ==
    IF n = 0 THEN 0
    ELSE LET edge == G.adj[route[n], route[n + 1]][1]
         IN  (edge.length * 3600) \div (edge.speed_kph * 1000)
                + TravelTimeAlong(route, n - 1)

\* C16: the timestamp of the event at index i of a route is the instant the
\* trip started plus the travel times of the first i edges of the route;
\* 100 m and 200 m at 10 km/h take 36 s and 72 s, so that the events of a
\* route over two such edges are at T, T + 36 s and T + 108 s
C16_TimestampIsStartPlusTravelTime ==
    /\ TravelTime(100, 10) = 36
    /\ TravelTime(100, 10) + TravelTime(200, 10) = 108
    /\ \A k \in 1..Len(emitted) :
          Instant(events.rows[k]["timestamp"])
              = emitted[k].random_ts
                   + TravelTimeAlong(routes[emitted[k].route], emitted[k].u_idx)

\* C17: the first event of every trip has its timestamp within the
\* simulation window, start_ts to end_ts, both ends included
C17_StartWithinWindow ==
    \A k \in 1..Len(emitted) :
        emitted[k].u_idx = 0
        => /\ start_ts <= Instant(events.rows[k]["timestamp"])
           /\ Instant(events.rows[k]["timestamp"]) <= end_ts

\* C17 witness: one trip started at the first instant of the window and
\* another at the last
C17_Witness ==
    /\ \E k \in 1..Len(emitted) :
          /\ emitted[k].u_idx = 0
          /\ Instant(events.rows[k]["timestamp"]) = start_ts
    /\ \E k \in 1..Len(emitted) :
          /\ emitted[k].u_idx = 0
          /\ Instant(events.rows[k]["timestamp"]) = end_ts

\* the events created on arrival over an edge
Hops == {k \in 1..Len(emitted) : emitted[k].prev_u # -1}

\* C18: once the network is built (speeds and travel times assigned), no
\* step of OD sampling, routing, event generation, checking or export
\* changes it, and every trip over an edge is given the travel time that
\* edge has in the network
C18_GraphUnchangedOnceBuilt ==
    [][pc \notin {"load", "speeds", "travel_times"}
        => /\ G' = G
           /\ \A k \in Hops' :
                 emitted'[k].travel_time
                     = G.adj[emitted'[k].prev_u, emitted'[k].u][1].travel_time]_vars

\* C18 witness: the run is over and two trips went over the same edge
C18_Witness ==
    /\ pc = "done"
    /\ \E k, l \in Hops :
          /\ emitted[k].route # emitted[l].route
          /\ emitted[k].prev_u = emitted[l].prev_u
          /\ emitted[k].u = emitted[l].u
          /\ emitted[k].travel_time > 0

\* the OD pairs dropped: the warnings of line 145
Dropped ==
    Cardinality({n \in 1..Len(log) :
                    log[n] = "WARNING: route could not be computed, skipping"})

\* C19: once routing is over, the success rate that is logged is the
\* number of routes found over the number of trips requested, as a
\* percentage to one decimal, and the routes found and the pairs dropped
\* add up to the trips requested
C19_SuccessRateReported ==
    pc # "route"
    => /\ Len(reported) = 1
       /\ reported[1].routes = Len(routes)
       /\ reported[1].requested = num_trips
       /\ LET d == reported[1].tenths * num_trips - 1000 * Len(routes)
          IN  2 * d <= num_trips /\ -2 * d <= num_trips
       /\ Len(od_pairs) = num_trips
       /\ Len(routes) + Dropped = num_trips

\* C19 witness: routing is over with one route found and one pair dropped,
\* reported as 50.0 %
C19_Witness ==
    /\ pc # "route"
    /\ Len(routes) = 1
    /\ Dropped = 1
    /\ reported = <<[routes |-> 1, requested |-> num_trips, tenths |-> 500]>>

\* two events were created with the same event_id
DuplicateEventId ==
    \E k, l \in 1..Len(emitted) :
        k # l /\ emitted[k].event.event_id = emitted[l].event.event_id

\* C20: the uniqueness check never ends the run: whatever it found and
\* logged, the step after it is the export, and the export writes both
\* files with every event
C20_DuplicateDoesNotHalt ==
    [][/\ pc = "check" => pc' = "export"
       /\ pc = "export"
             => /\ pc' = "done"
                /\ Len(files') = 2
                /\ \A f \in 1..2 : Len(files'[f].rows) = Len(emitted)]_vars

\* C20 witness: the run is over, two events were created with the same
\* event_id, and both files are written
C20_Witness ==
    /\ pc = "done"
    /\ DuplicateEventId
    /\ Len(files) = 2

\* the rows of a file as a bag: how many times each row occurs
RowCount(f, row) == Cardinality({k \in 1..Len(f.rows) : f.rows[k] = row})

\* C21: the second exported file holds the same events as the first, each
\* as many times, and its rows are in ascending order of the instants their
\* timestamps denote
C21_SortedFileAscending ==
    pc = "done"
    => /\ Len(files[2].rows) = Len(files[1].rows)
       /\ \A k \in 1..Len(files[1].rows) :
             RowCount(files[2], files[1].rows[k]) = RowCount(files[1], files[1].rows[k])
       /\ \A k \in 1..(Len(files[2].rows) - 1) :
             Instant(files[2].rows[k]["timestamp"])
                <= Instant(files[2].rows[k + 1]["timestamp"])

\* C22: while there is no network, or the network has no edge, the run is
\* at its start or has ended, and no OD pair, route or event was produced
\* and no file written
C22_NoNetworkAborts ==
    Edges(G) = {}
    => /\ pc \in {"load", "aborted"}
       /\ od_pairs = <<>> /\ sampled = <<>>
       /\ routes = <<>> /\ routed = <<>>
       /\ emitted = <<>> /\ events = EmptyFrame
       /\ files = <<>>

\* C22 witness: the network was obtained, has no edge, and the run has ended
C22_Witness ==
    /\ G = EdgelessGraph
    /\ pc = "aborted"
    /\ files = <<>>

\* what routing a pair comes to on a network where the shortest path of
\* every pair is unique: that path, or None without a path
Outcome(g, p) ==
    IF PathsBetween(g, p[1], p[2]) = {} THEN None
    ELSE CHOOSE r \in PathsBetween(g, p[1], p[2]) :
            \A q \in PathsBetween(g, p[1], p[2]) : \A c \in PathLengths(g, q) :
                \E d \in PathLengths(g, r) : d <= c

\* C23: the result for an OD pair is fixed by the network and the pair,
\* whatever its place in the list and whatever was resolved before it, so
\* that the set of (pair, route) results is the same for every order of
\* the pairs
C23_RoutingIndependentPerPair ==
    /\ \A i \in RoutedIndex : routed[i] = Outcome(G, od_pairs[i])
    /\ {<<od_pairs[i], routed[i]>> : i \in RoutedIndex}
          = {<<p, Outcome(G, p)>> : p \in {od_pairs[i] : i \in RoutedIndex}}

\* C23 witness: both pairs are resolved, they start at the same node, the
\* first has a route, the second a longer one
C23_Witness ==
    /\ Len(routed) = 2
    /\ od_pairs[1][1] = od_pairs[2][1]
    /\ routed[1] # None /\ routed[2] # None
    /\ Len(routed[1]) < Len(routed[2])

\* the number of nodes of all routes
RECURSIVE NodeCount(_)
NodeCount(rs) == IF rs = <<>> THEN 0 ELSE Len(Head(rs)) + NodeCount(Tail(rs))

\* the events so far are those of the routes in order, each route's in the
\* order of its nodes and with its nodes' coordinates
EventsFollowRoutes ==
    /\ Len(events.rows) = Len(emitted)
    /\ \A k \in 1..Len(emitted) :
          LET route == routes[emitted[k].route]
              i == emitted[k].u_idx + 1
          IN  /\ i <= Len(route)
              /\ events.rows[k]["latitude"] = <<"float", "y", route[i]>>
              /\ events.rows[k]["longitude"] = <<"float", "x", route[i]>>
              /\ IF k = 1 THEN emitted[k].route = 1 /\ i = 1
                 ELSE IF i = 1
                      THEN /\ emitted[k - 1].route = emitted[k].route - 1
                           /\ emitted[k - 1].u_idx + 1
                                 = Len(routes[emitted[k - 1].route])
                      ELSE /\ emitted[k - 1].route = emitted[k].route
                           /\ emitted[k - 1].u_idx + 1 = i - 1

\* event generation is over with as many events as the routes have nodes,
\* and the first file lists them as generated
EventsComplete ==
    /\ pc \in {"check", "export", "done"}
          => /\ Len(emitted) = NodeCount(routes)
             /\ \A j \in 1..Len(routes) :
                   Cardinality(EventsOfRoute(j)) = Len(routes[j])
    /\ pc = "done"
          => /\ Len(files[1].rows) = Len(emitted)
             /\ \A k \in 1..Len(emitted) :
                   /\ files[1].rows[k]["latitude"] = emitted[k].event.latitude
                   /\ files[1].rows[k]["longitude"] = emitted[k].event.longitude
                   /\ files[1].rows[k]["trip_id"] = emitted[k].event.trip_id

\* inside the loop over a route the next iteration can run: the trip is
\* at a node of its route, reached over an edge of the network
LoopCanStep ==
    pc = "event"
    => /\ trip.i \in 1..Len(routes)
       /\ trip.u_idx + 1 \in 1..Len(routes[trip.i])
       /\ trip.u = routes[trip.i][trip.u_idx + 1]
       /\ trip.prev_u # -1 => G.adj[trip.prev_u, trip.u] # <<>>

\* an iteration of the loop emits one event and either moves one node on
\* along the same route or leaves the loop, after the route's last node
LoopAdvances ==
    pc = "event"
    => /\ Len(emitted') = Len(emitted) + 1
       /\ \/ /\ pc' = "event"
             /\ trip'.i = trip.i
             /\ trip'.u_idx = trip.u_idx + 1
          \/ /\ pc' \in {"trip", "check"}
             /\ trip.u_idx + 1 = Len(routes[trip.i])

\* C24: the loop over a route of k nodes comes to an end, having emitted k
\* events, the i-th with the coordinates of the route's i-th node; the
\* events of a trip are contiguous and in route order in the first file,
\* and there are as many events as the routes have nodes
C24_EventsPerRouteNode ==
    /\ [](EventsFollowRoutes /\ EventsComplete /\ LoopCanStep)
    /\ [][LoopAdvances]_vars

\* C24 witness: the run is over with a route of one node and a route of
\* three, every node of which has its event
C24_Witness ==
    /\ pc = "done"
    /\ \E j \in 1..Len(routes) : Len(routes[j]) = 1 /\ Cardinality(EventsOfRoute(j)) = 1
    /\ \E j \in 1..Len(routes) : Len(routes[j]) = 3 /\ Cardinality(EventsOfRoute(j)) = 3
    /\ Len(files[1].rows) = 4

\* C25: every sampled OD pair is joined by a path from its origin to its
\* destination, so that routing never skips a pair and ends with as many
\* routes as trips were requested
C25_SampledPairsRoutable ==
    /\ \A i \in SampledIndex :
          PathsBetween(G, od_pairs[i][1], od_pairs[i][2]) # {}
    /\ \A i \in RoutedIndex : routed[i] # None
    /\ Dropped = 0
    /\ pc \notin {"sample", "route"}
          => Len(routes) = Len(requested_trip_lengths)

\* C25 witness: on a network with one-way streets a pair was sampled whose
\* origin cannot be reached back from its destination, and it was routed
C25_Witness ==
    \E i \in RoutedIndex :
        /\ od_pairs[i][1] # od_pairs[i][2]
        /\ PathsBetween(G, od_pairs[i][2], od_pairs[i][1]) = {}
        /\ routed[i] # None
        /\ Len(routes) = Len(requested_trip_lengths)

\* C26: the length of a trip's route is at most the requested trip length
\* its OD pair was sampled with
C26_RouteWithinRequestedLength ==
    \A i \in RoutedIndex :
        routed[i] # None
        => route_lengths[RouteIndex(i)] <= sampled[i].requested_trip_length

\* C26 witness: a route of two edges as long as the requested trip length,
\* to a destination that a single, longer edge also leads to
C26_Witness ==
    \E i \in RoutedIndex :
        /\ routed[i] # None
        /\ Len(routed[i]) = 3
        /\ route_lengths[RouteIndex(i)] = sampled[i].requested_trip_length
        /\ G.adj[od_pairs[i][1], od_pairs[i][2]] # <<>>

\* C27: for every hop of a route there is an edge with key 0 between its
\* nodes, and the timestamp of the event after the hop is that of the event
\* before it advanced by the travel_time of that edge, whichever of the
\* parallel edges is the shortest; event generation does not fail
C27_TravelTimeOfKeyZero ==
    /\ LoopCanStep
    /\ pc = "aborted" => routes = <<>> /\ emitted = <<>>
    /\ Len(events.rows) = Len(emitted)
    /\ \A k \in Hops :
          LET es == G.adj[emitted[k].prev_u, emitted[k].u]
          IN  /\ Len(es) >= 1
              /\ emitted[k - 1].route = emitted[k].route
              /\ emitted[k - 1].u = emitted[k].prev_u
              /\ Instant(events.rows[k]["timestamp"])
                    = Instant(events.rows[k - 1]["timestamp"]) + es[1].travel_time

\* one OD pair per requested trip, the i-th sampled with the i-th distance
OnePairPerTrip ==
    /\ Len(od_pairs) = Len(sampled)
    /\ Len(od_pairs) <= Len(requested_trip_lengths)
    /\ \A i \in SampledIndex :
          LET t == sampled[i]
          IN  /\ t.requested_trip_length = requested_trip_lengths[i]
              /\ od_pairs[i] = <<t.start_node, t.end_node>>
              /\ t.nodes_within_radius
                    = EgoGraph(G, t.start_node, requested_trip_lengths[i]).nodes
    /\ pc \in {"route", "trip", "event", "check", "export", "done"}
          => Len(od_pairs) = num_trips

\* routes holds the routes of the OD pairs that have one, in the order of
\* the pairs, and the events follow each other in the order of the routes,
\* in the script and in the first file
RoutesInPairOrder ==
    /\ Len(routed) <= Len(od_pairs)
    /\ Len(routes) = RouteIndex(Len(routed))
    /\ \A i \in RoutedIndex :
          routed[i] # None
          => /\ routes[RouteIndex(i)] = routed[i]
             /\ routed[i][1] = od_pairs[i][1]
             /\ routed[i][Len(routed[i])] = od_pairs[i][2]
    /\ \A i, j \in RoutedIndex :
          i < j /\ routed[i] # None /\ routed[j] # None
          => /\ RouteIndex(i) < RouteIndex(j)
             /\ \A k \in EventsOfRoute(RouteIndex(i)) :
                   \A l \in EventsOfRoute(RouteIndex(j)) : k < l
    /\ Len(events.rows) = Len(emitted)
    /\ \A k \in 1..Len(emitted) :
          events.rows[k]["trip_id"] = emitted[k].event.trip_id
    /\ pc = "done"
          => /\ Len(files[1].rows) = Len(emitted)
             /\ \A k \in 1..Len(emitted) :
                   files[1].rows[k]["trip_id"] = emitted[k].event.trip_id

\* C28: one OD pair is sampled per requested trip, the i-th with the i-th
\* requested distance; the routes are those of the OD pairs that have one, in
\* the order of the pairs, and the events of an earlier pair's trip come
\* before those of a later pair's trip in the file written in generation order
C28_PairsRoutesEventsInOrder == OnePairPerTrip /\ RoutesInPairOrder

\* C28 witness: a finished run whose two trips were requested with different
\* distances, both routed, the first trip's events written before the second's
C28_Witness ==
    /\ pc = "done"
    /\ requested_trip_lengths[1] # requested_trip_lengths[2]
    /\ Len(routes) = 2
    /\ routes[1] # routes[2]
    /\ Len(routes[1]) >= 2
    /\ emitted[1].event.trip_id # emitted[Len(emitted)].event.trip_id
    /\ files[1].rows[1]["trip_id"] = emitted[1].event.trip_id
    /\ files[1].rows[Len(emitted)]["trip_id"] = emitted[Len(emitted)].event.trip_id

\* the first records of the routes of generate-data.py
FirstRecords ==
    {k \in 1..Len(generate_data.all_records) :
        generate_data.all_records[k].sequence = 1}

\* t lies within the seven days before now
WithinPastSevenDays(t) ==
    /\ generate_data.now - 7 * 86400 <= t
    /\ t <= generate_data.now

\* an iteration of the loop of generate-data.py has run
RouteStarted ==
    \/ generate_data.pc \in {"dump", "done", "aborted"}
    \/ generate_data.pc = "loop" /\ generate_data.rid > 1

\* C29: in generate-data.py the start time of every route lies within the
\* seven days before now: now - 7 days <= start_time <= now
C29_StartWithinPastSevenDays ==
    /\ RouteStarted => WithinPastSevenDays(generate_data.start_time)
    /\ \A k \in FirstRecords :
          WithinPastSevenDays(generate_data.all_records[k].timestamp[2])

\* the kinds of row the script skips, read off the row itself: too short,
\* an empty or blank field, a repeated header, or a field that is not a date
TooShort(row) == Len(row) < timestamp_stats.ts_index

Blank(field) == \A i \in 1..Len(field) : field[i] = Whitespace

HeaderLike(field) ==
    /\ \E i \in 1..Len(field) : field[i][1] = "timestamp"
    /\ \A i \in 1..Len(field) : field[i][1] \in {"timestamp", " "}

IsDate(field) == Len(field) = 1 /\ field[1][1] = "str"

Skipped(row) ==
    \/ TooShort(row)
    \/ Blank(row[timestamp_stats.ts_index])
    \/ HeaderLike(row[timestamp_stats.ts_index])
    \/ ~IsDate(row[timestamp_stats.ts_index])

\* count, min_ts, max_ts and sum_ts against the timestamps accepted so far
StatsOfAccepted ==
    LET acc == timestamp_stats.accepted
    IN  /\ timestamp_stats.count = Len(acc)
        /\ (timestamp_stats.count = 0) <=> (timestamp_stats.min_ts = None)
        /\ (timestamp_stats.count = 0) <=> (timestamp_stats.max_ts = None)
        /\ timestamp_stats.count = 0 => timestamp_stats.sum_ts = <<0, 0>>
        /\ timestamp_stats.count > 0
              => /\ timestamp_stats.min_ts = <<Min(Range(acc))>>
                 /\ timestamp_stats.max_ts = <<Max(Range(acc))>>
                 /\ timestamp_stats.min_ts[1] <= timestamp_stats.max_ts[1]

\* a row is accepted exactly when it is none of the kinds skipped, and then
\* it is its instant that is accepted; a skipped row changes none of the four
RowStep ==
    timestamp_stats.pc = "rows" /\ timestamp_stats'.row_num = timestamp_stats.row_num + 1
    => LET row == Head(timestamp_stats.rows)
       IN  IF Skipped(row)
           THEN /\ timestamp_stats'.min_ts = timestamp_stats.min_ts
                /\ timestamp_stats'.max_ts = timestamp_stats.max_ts
                /\ timestamp_stats'.sum_ts = timestamp_stats.sum_ts
                /\ timestamp_stats'.count = timestamp_stats.count
                /\ timestamp_stats'.accepted = timestamp_stats.accepted
           ELSE /\ timestamp_stats'.count = timestamp_stats.count + 1
                /\ timestamp_stats'.accepted
                      = Append(timestamp_stats.accepted,
                               Instant(row[timestamp_stats.ts_index][1]))

\* C30: in timestamp_stats.py, after any sequence of data rows, count is the
\* number of rows whose timestamp was accepted, min_ts and max_ts are the
\* minimum and the maximum of the accepted timestamps, both unset exactly
\* when count = 0, and a row skipped as too short, empty, header-like or
\* unparseable leaves min_ts, max_ts, sum_ts and count unchanged
C30_StatsOfAcceptedRows == [](StatsOfAccepted) /\ [][RowStep]_vars

\* C30 witness: a file read to its end with three data rows, one of them
\* skipped, the later of the two accepted timestamps being the smaller one
C30_Witness ==
    /\ timestamp_stats.pc = "done"
    /\ timestamp_stats.row_num = 4
    /\ timestamp_stats.count = 2
    /\ timestamp_stats.accepted[2] < timestamp_stats.accepted[1]
    /\ timestamp_stats.min_ts = <<timestamp_stats.accepted[2]>>
    /\ timestamp_stats.max_ts = <<timestamp_stats.accepted[1]>>

=============================================================================
